---- MODULE Spec2Model ----
(***************************************************************************)
(* PersonaLife (src/src/App.jsx): the add-activity flow (handleSubmit,     *)
(* callAiModel, fetchWithBackoff), the aggregator (handleSaveEntry) and    *)
(* the export/import codec (handleExport, handleImport) as one state       *)
(* machine over the two pieces of application state, allEntries and        *)
(* playerStats.                                                            *)
(*                                                                         *)
(* JavaScript values are tagged records; an object is the sequence of its  *)
(* members in insertion order.  JSON text is a sequence of tokens, written *)
(* by Stringify and read back by a recursive-descent JSONParse.            *)
(***************************************************************************)
EXTENDS Integers, Sequences, FiniteSets, TLC

(***************************** JavaScript values ***************************)

Undef == [t |-> "undefined"]
Null == [t |-> "null"]
Bool(b) == [t |-> "boolean", b |-> b]
Num(n) == [t |-> "number", n |-> n]
Str(s) == [t |-> "string", s |-> s]
Arr(a) == [t |-> "array", a |-> a]
Obj(m) == [t |-> "object", m |-> m]
Member(k, v) == [k |-> k, v |-> v]

\* ToBoolean: what `a && b`, `x || 0` and `if (x)` test.
Truthy(v) ==
  CASE v.t = "undefined" -> FALSE
    [] v.t = "null" -> FALSE
    [] v.t = "boolean" -> v.b
    [] v.t = "number" -> v.n # 0
    [] v.t = "string" -> v.s # ""
    [] OTHER -> TRUE

HasKey(m, k) == \E i \in 1..Len(m) : m[i].k = k
KeyIndex(m, k) == CHOOSE i \in 1..Len(m) : m[i].k = k
Keys(m) == {m[i].k : i \in 1..Len(m)}

\* obj[key] on a value that is not null or undefined: the member's value, or
\* undefined (a number, a string or an array has none of the keys read here).
Get(v, k) ==
  IF v.t = "object" /\ HasKey(v.m, k) THEN v.m[KeyIndex(v.m, k)].v ELSE Undef

\* obj[key] = val on a member list: in place when the key exists, else appended.
SetMember(m, k, val) ==
  IF HasKey(m, k)
  THEN [m EXCEPT ![KeyIndex(m, k)] = Member(k, val)]
  ELSE Append(m, Member(k, val))

\* {...prev}: the own enumerable members of prev; none for a primitive.
SpreadObject(v) == IF v.t = "object" THEN v.m ELSE <<>>

\* for (const key in gains): the keys in insertion order; none for null,
\* undefined or a number.
ForInKeys(v) == IF v.t = "object" THEN [i \in 1..Len(v.m) |-> v.m[i].k] ELSE <<>>

(********************************* JSON text *******************************)

Punct(c) == [k |-> "punct", s |-> c, n |-> 0]
NumTok(n) == [k |-> "number", s |-> "", n |-> n]
StrTok(s) == [k |-> "string", s |-> s, n |-> 0]
LitTok(s) == [k |-> "literal", s |-> s, n |-> 0]
\* A run of characters that is no JSON token (an unquoted word, a cut string).
JunkTok == [k |-> "junk", s |-> "", n |-> 0]

RECURSIVE Stringify(_)
RECURSIVE StringifyMembers(_, _)
RECURSIVE StringifyElements(_, _)

\* JSON.stringify of a value that is not undefined.  A member whose value is
\* undefined is left out; an undefined array element is written null.
Stringify(v) ==
  CASE v.t = "null" -> <<LitTok("null")>>
    [] v.t = "boolean" -> <<LitTok(IF v.b THEN "true" ELSE "false")>>
    [] v.t = "number" -> <<NumTok(v.n)>>
    [] v.t = "string" -> <<StrTok(v.s)>>
    [] v.t = "array" -> <<Punct("[")>> \o StringifyElements(v.a, 1) \o <<Punct("]")>>
    [] v.t = "object" -> <<Punct("{")>> \o StringifyMembers(v.m, TRUE) \o <<Punct("}")>>

StringifyElements(a, i) ==
  IF i > Len(a) THEN <<>>
  ELSE (IF i > 1 THEN <<Punct(",")>> ELSE <<>>)
       \o (IF a[i].t = "undefined" THEN <<LitTok("null")>> ELSE Stringify(a[i]))
       \o StringifyElements(a, i + 1)

StringifyMembers(m, first) ==
  IF m = <<>> THEN <<>>
  ELSE IF Head(m).v.t = "undefined" THEN StringifyMembers(Tail(m), first)
  ELSE (IF first THEN <<>> ELSE <<Punct(",")>>)
       \o <<StrTok(Head(m).k), Punct(":")>> \o Stringify(Head(m).v)
       \o StringifyMembers(Tail(m), FALSE)

\* A parse step's result: the value and the index of the next token.
ParseFail == [ok |-> FALSE, v |-> Undef, i |-> 0]
ParseOk(v, i) == [ok |-> TRUE, v |-> v, i |-> i]
IsPunct(ts, i, c) == i <= Len(ts) /\ ts[i].k = "punct" /\ ts[i].s = c

RECURSIVE ParseValue(_, _)
RECURSIVE ParseElements(_, _, _)
RECURSIVE ParseMembers(_, _, _)

ParseValue(ts, i) ==
  IF i > Len(ts) THEN ParseFail
  ELSE CASE ts[i].k = "number" -> ParseOk(Num(ts[i].n), i + 1)
         [] ts[i].k = "string" -> ParseOk(Str(ts[i].s), i + 1)
         [] ts[i].k = "literal" ->
              ParseOk(IF ts[i].s = "null" THEN Null ELSE Bool(ts[i].s = "true"), i + 1)
         [] IsPunct(ts, i, "[") ->
              IF IsPunct(ts, i + 1, "]") THEN ParseOk(Arr(<<>>), i + 2)
              ELSE ParseElements(ts, i + 1, <<>>)
         [] IsPunct(ts, i, "{") ->
              IF IsPunct(ts, i + 1, "}") THEN ParseOk(Obj(<<>>), i + 2)
              ELSE ParseMembers(ts, i + 1, <<>>)
         [] OTHER -> ParseFail

\* After "[" or ",": one element, then "," or "]".
ParseElements(ts, i, acc) ==
  LET r == ParseValue(ts, i) IN
  IF ~r.ok THEN ParseFail
  ELSE IF IsPunct(ts, r.i, ",") THEN ParseElements(ts, r.i + 1, Append(acc, r.v))
  ELSE IF IsPunct(ts, r.i, "]") THEN ParseOk(Arr(Append(acc, r.v)), r.i + 1)
  ELSE ParseFail

\* After "{" or ",": "key" ":" value, then "," or "}".  A repeated key keeps
\* its first place and takes the last value.
ParseMembers(ts, i, acc) ==
  IF ~(i + 1 <= Len(ts) /\ ts[i].k = "string" /\ IsPunct(ts, i + 1, ":"))
  THEN ParseFail
  ELSE LET r == ParseValue(ts, i + 2) IN
       IF ~r.ok THEN ParseFail
       ELSE IF IsPunct(ts, r.i, ",")
            THEN ParseMembers(ts, r.i + 1, SetMember(acc, ts[i].s, r.v))
       ELSE IF IsPunct(ts, r.i, "}")
            THEN ParseOk(Obj(SetMember(acc, ts[i].s, r.v)), r.i + 1)
       ELSE ParseFail

\* JSON.parse(text): the value, or a SyntaxError (ok = FALSE) when the text is
\* not exactly one JSON value.
JSONParse(ts) ==
  LET r == ParseValue(ts, 1) IN
  IF r.ok /\ r.i = Len(ts) + 1 THEN r ELSE ParseFail

(***************************** constants and inputs ************************)

\* fetchWithBackoff's default policy.
Retries == 5
InitialDelay == 1000
TooManyRequests == 429

\* The most entries the list grows to by saves.
MaxEntries == 2

\* STAT_NAMES, in its key order.
StatKeys == <<"diligence", "knowledge", "courage", "understanding", "expression">>
StatKeySet == {StatKeys[i] : i \in 1..Len(StatKeys)}

Screens == {"home", "add", "calendar", "stats", "settings"}

\* What the user types into either field; the first two are blank.
Texts == {"", "  ", "read a book"}
\* String.prototype.trim on these texts.
Trim(s) == IF s = "  " THEN "" ELSE s

\* Readings of the clock (new Date()) and of Math.random().
Instants == {1, 2}
ISOString(d) ==
  CASE d = 1 -> "2025-01-01T09:00:00.000Z"
    [] d = 2 -> "2025-01-02T08:30:00.000Z"
    [] d = 3 -> "2025-01-02T17:45:00.000Z"
    [] OTHER -> "2025-01-02T23:10:00.000Z"
\* toISOString().split('T')[0]
DatePart(d) == IF d = 1 THEN "2025-01-01" ELSE "2025-01-02"
Randoms == {"0.25"}
\* The days of the calendar grid that are clicked: the two days with
\* readings of the clock and a day with none.
Dates == {"2025-01-01", "2025-01-02", "2025-01-03"}

\* The text of a JSON object whose members are the pairs <<key, tokens>>.
RECURSIVE MemberTokens(_, _)
MemberTokens(pairs, i) ==
  IF i > Len(pairs) THEN <<>>
  ELSE (IF i > 1 THEN <<Punct(",")>> ELSE <<>>)
       \o <<StrTok(pairs[i][1]), Punct(":")>> \o pairs[i][2]
       \o MemberTokens(pairs, i + 1)
ObjectText(pairs) == <<Punct("{")>> \o MemberTokens(pairs, 1) \o <<Punct("}")>>
GainsText(d, k, c, u, e) ==
  ObjectText(<<
    <<"diligence", <<NumTok(d)>> >>, <<"knowledge", <<NumTok(k)>> >>,
    <<"courage", <<NumTok(c)>> >>, <<"understanding", <<NumTok(u)>> >>,
    <<"expression", <<NumTok(e)>> >> >>)

\* Candidate texts of the AI endpoint: an answer within the requested schema,
\* one outside it (a negative value, a value above 5, a sixth key), one cut
\* short, and the empty string.
TextA == GainsText(1, 4, 0, 0, 0)
TextRogue ==
  ObjectText(<<
    <<"diligence", <<NumTok(-2)>> >>, <<"knowledge", <<NumTok(9)>> >>,
    <<"courage", <<NumTok(0)>> >>, <<"understanding", <<NumTok(0)>> >>,
    <<"expression", <<NumTok(0)>> >>, <<"luck", <<NumTok(1)>> >> >>)
TextCut == SubSeq(TextA, 1, 6)
\* An answer whose diligence is the string "3".
TextQuoted ==
  ObjectText(<<
    <<"diligence", <<StrTok("3")>> >>, <<"knowledge", <<NumTok(0)>> >>,
    <<"courage", <<NumTok(0)>> >>, <<"understanding", <<NumTok(0)>> >>,
    <<"expression", <<NumTok(0)>> >> >>)
TextEmpty == <<>>
AiTexts == {TextA, TextRogue, TextCut, TextEmpty}

\* What response.json(), the promise fetchWithBackoff returns for a 2xx
\* answer, gives: a rejection (the body is not JSON), a result without
\* candidates, or a result whose first candidate's first part holds the text.
NoBody == [kind |-> "none", text |-> <<>>]
Bodies ==
  {[kind |-> "notjson", text |-> <<>>], [kind |-> "nocandidate", text |-> <<>>]}
  \cup {[kind |-> "text", text |-> x] : x \in AiTexts}

\* What fetch settles with: an HTTP status, or 0 for a fetch that rejects (no
\* network).
Statuses == {0, 200, 429, 500}

\* Files offered to the import: import documents and damaged files.
EntryText(d, gains) ==
  ObjectText(<<
    <<"id", <<StrTok(ISOString(d) \o "0.5")>> >>,
    <<"date", <<StrTok(DatePart(d))>> >>,
    <<"activity", <<StrTok("went running")>> >>,
    <<"feeling", <<StrTok("tired")>> >>,
    <<"gains", gains>> >>)
DocFull ==
  ObjectText(<<
    <<"allEntries", <<Punct("[")>> \o EntryText(1, TextA) \o <<Punct("]")>> >>,
    <<"playerStats", GainsText(3, 0, 0, 0, 2)>>,
    <<"exportDate", <<StrTok(ISOString(1))>> >> >>)
DocEmpty ==
  ObjectText(<<
    <<"allEntries", <<Punct("["), Punct("]")>> >>,
    <<"playerStats", <<Punct("{"), Punct("}")>> >> >>)
DocNoStats == ObjectText(<< <<"allEntries", <<Punct("["), Punct("]")>> >> >>)
DocNoEntries == ObjectText(<< <<"playerStats", GainsText(1, 1, 1, 1, 1)>> >>)
DocNullEntries ==
  ObjectText(<<
    <<"allEntries", <<LitTok("null")>> >>,
    <<"playerStats", GainsText(1, 1, 1, 1, 1)>> >>)
DocZeroStats ==
  ObjectText(<<
    <<"allEntries", <<Punct("["), Punct("]")>> >>,
    <<"playerStats", <<NumTok(0)>> >> >>)
DocCut == SubSeq(DocFull, 1, 9)
DocJunk == <<JunkTok>>
DocNull == <<LitTok("null")>>
Docs ==
  {DocFull, DocEmpty, DocNoStats, DocNoEntries, DocNullEntries, DocZeroStats,
   DocCut, DocJunk, DocNull}

(********************************** state **********************************)

VARIABLES
  activeScreen,  \* App: the screen shown
  allEntries,    \* App: the entry list (a JavaScript value)
  playerStats,   \* App: the attribute totals (a JavaScript value)
  activity,      \* AddActivityScreen: the activity field
  feeling,       \* AddActivityScreen: the feeling field
  isLoading,     \* AddActivityScreen: a submission is in flight
  error,         \* AddActivityScreen: the inline error, "" for null
  message,       \* SettingsScreen: the status message
  pc,            \* the submission: idle, fetching, waiting, settled
  retries,       \* fetchWithBackoff: the retries left of the current call
  delay,         \* fetchWithBackoff: the delay of the current call
  answers,       \* the statuses the endpoint has answered to this submission
  waits,         \* the delays waited between the calls of this submission
  fetched,       \* how fetchWithBackoff settled, once pc = "settled"
  reading,       \* the FileReader of an import: none, mounted, orphan
  exportFile,    \* the document the last export of this Settings visit wrote
  store,         \* localStorage: the item under each of the two keys
  setItems,      \* the setItem calls of the effects of the latest commit
  rejecting,     \* localStorage: the keys under which setItem throws at present
  selectedDate,  \* CalendarScreen: the day selected, "" while not mounted
  submitted      \* handleSubmit: the activity and feeling of the call in flight

vars ==
  <<activeScreen, allEntries, playerStats, activity, feeling, isLoading, error,
    message, pc, retries, delay, answers, waits, fetched, reading, exportFile,
    store, setItems, rejecting, selectedDate, submitted>>

appVars == <<allEntries, playerStats>>
formVars == <<activity, feeling, isLoading, error>>
fetchVars == <<pc, retries, delay, answers, waits, fetched, submitted>>
settingsVars == <<message, reading, exportFile>>
storeVars == <<store, setItems, rejecting>>

\* message is null, or {type: 'success' | 'error', text}; of the text only
\* the handler that wrote it is kept.
NoMessage == [type |-> "none", by |-> ""]
Msg(type, by) == [type |-> type, by |-> by]
NoFile == <<>>
NoDate == ""
NoSubmission == [activity |-> "", feeling |-> ""]
NotFetched == [ok |-> FALSE, body |-> NoBody]

\* useLocalStorage's default for 'personaDailyStats'.
ZeroStats == Obj([i \in 1..Len(StatKeys) |-> Member(StatKeys[i], Num(0))])

(******************************* useLocalStorage ***************************)

EntriesKey == "personaDailyEntries"
StatsKey == "personaDailyStats"
StoreKeys == {EntriesKey, StatsKey}

\* localStorage.getItem(key): null when there is no item, else its text.
NoItem == [has |-> FALSE, text |-> <<>>]
Item(text) == [has |-> TRUE, text |-> text]
\* The store of the first run.
EmptyStore == [k \in StoreKeys |-> NoItem]

\* The initializer of useState: the parsed item, or the default when there is
\* no item, the item is the empty text, or it does not parse.
Load(item, defaultValue) ==
  IF item.has /\ item.text # <<>> /\ JSONParse(item.text).ok
  THEN JSONParse(item.text).v
  ELSE defaultValue

\* Object.is(old, new) for a value handed to a setter: an array or object
\* just built is never the one held, a primitive is the same when equal.
SameValue(old, new) == new.t \notin {"array", "object"} /\ new = old

\* The text setItem stores for JSON.stringify(value): for undefined,
\* JSON.stringify gives undefined and setItem stores the word, which is no
\* JSON text.
ItemText(value) == IF value.t = "undefined" THEN <<JunkTok>> ELSE Stringify(value)

\* Mutant of Effect: the effect body runs twice.
EffectTwice(key, value, ok) ==
  <<[key |-> key, text |-> ItemText(value), ok |-> ok],
    [key |-> key, text |-> ItemText(value), ok |-> ok]>>

\* The effect body: localStorage.setItem(key, JSON.stringify(value)) in a
\* try block; ok tells whether the store accepts the write or setItem throws
\* (the storage is unavailable or its quota is exceeded).
Effect(key, value, ok) ==
  <<[key |-> key, text |-> ItemText(value), ok |-> ok]>>

\* The store after a sequence of setItem calls.
RECURSIVE Written(_, _)
Written(st, calls) ==
  IF calls = <<>> THEN st
  ELSE Written(IF Head(calls).ok
               THEN [st EXCEPT ![Head(calls).key] = Item(Head(calls).text)]
               ELSE st,
               Tail(calls))

\* The effects of a commit, in the order of the hooks: each cell's effect
\* runs when its value is not the one of the previous render (always at
\* mount).
Effects(runEntries, entries, okEntries, runStats, stats, okStats) ==
  (IF runEntries THEN Effect(EntriesKey, entries, okEntries) ELSE <<>>)
  \o (IF runStats THEN Effect(StatsKey, stats, okStats) ELSE <<>>)

\* The commit that follows a call of both setters.
Commit ==
  LET calls == Effects(~SameValue(allEntries, allEntries'), allEntries',
                       EntriesKey \notin rejecting,
                       ~SameValue(playerStats, playerStats'), playerStats',
                       StatsKey \notin rejecting)
  IN /\ setItems' = calls
     /\ store' = Written(store, calls)
     /\ UNCHANGED rejecting

\* The application mounted on the store of the first run, while setItem
\* throws under the keys of rej: the two cells load their defaults and their
\* effects run once.
Mounted(rej) ==
  /\ rejecting = rej
  /\ activeScreen = "home"
  /\ allEntries = Load(EmptyStore[EntriesKey], Arr(<<>>))
  /\ playerStats = Load(EmptyStore[StatsKey], ZeroStats)
  /\ LET calls == Effects(TRUE, allEntries, EntriesKey \notin rej,
                          TRUE, playerStats, StatsKey \notin rej)
     IN /\ setItems = calls
        /\ store = Written(EmptyStore, calls)
  /\ activity = ""
  /\ feeling = ""
  /\ isLoading = FALSE
  /\ error = ""
  /\ message = NoMessage
  /\ pc = "idle"
  /\ retries = Retries
  /\ delay = InitialDelay
  /\ answers = <<>>
  /\ waits = <<>>
  /\ fetched = NotFetched
  /\ reading = "none"
  /\ exportFile = NoFile
  /\ selectedDate = NoDate
  /\ submitted = NoSubmission

\* The first run on a store that accepts every write.
Init == Mounted({})

(******************************** navigation *******************************)

\* setActiveScreen(to) from the bottom bar, the floating button, the home
\* button or the back link.  The screen left is unmounted and its state is
\* gone; the loading overlay (fixed inset-0 z-50) covers every one of these
\* controls while a submission is in flight.  The exported document is offered
\* to the file picker until Settings is left.  The calendar mounts with the
\* day of the clock's reading selected.
Navigate(to) ==
  /\ ~isLoading
  /\ to # activeScreen
  /\ to \in Screens
  /\ activeScreen' = to
  /\ activity' = ""
  /\ feeling' = ""
  /\ error' = ""
  /\ message' = NoMessage
  /\ exportFile' = NoFile
  /\ reading' = IF reading = "mounted" THEN "orphan" ELSE reading
  /\ selectedDate' \in IF to = "calendar"
                       THEN {DatePart(now) : now \in Instants}
                       ELSE {NoDate}
  /\ UNCHANGED <<appVars, isLoading, fetchVars, storeVars>>

\* The back link or a button of the bottom bar reached with the Tab key and
\* pressed with Enter or Space while the loading overlay is shown: the
\* overlay takes the pointer, not the keyboard focus.  The form is unmounted
\* and handleSubmit goes on without it.
KeyboardNavigate(to) ==
  /\ isLoading
  /\ to # activeScreen
  /\ to \in Screens
  /\ activeScreen' = to
  /\ activity' = ""
  /\ feeling' = ""
  /\ error' = ""
  /\ isLoading' = FALSE
  /\ selectedDate' \in IF to = "calendar"
                       THEN {DatePart(now) : now \in Instants}
                       ELSE {NoDate}
  /\ UNCHANGED <<appVars, fetchVars, storeVars, settingsVars>>

\* A click on a day of the calendar grid: setSelectedDate(day.dateStr).
SelectDate(d) ==
  /\ activeScreen = "calendar"
  /\ selectedDate' = d
  /\ UNCHANGED <<activeScreen, appVars, storeVars, formVars, fetchVars, settingsVars>>

(****************************** the activity form **************************)

\* onChange of the activity input and of the feeling textarea.
SetActivity(s) ==
  /\ activeScreen = "add" /\ ~isLoading
  /\ activity' = s
  /\ UNCHANGED <<activeScreen, appVars, storeVars, selectedDate, feeling, isLoading, error, fetchVars, settingsVars>>

SetFeeling(s) ==
  /\ activeScreen = "add" /\ ~isLoading
  /\ feeling' = s
  /\ UNCHANGED <<activeScreen, appVars, storeVars, selectedDate, activity, isLoading, error, fetchVars, settingsVars>>

\* Mutant of IsBlank: the test without trim().
IsEmpty(s) == s = ""

\* handleSubmit's validation: !activity.trim() || !feeling.trim().
IsBlank(s) == Trim(s) = ""
BlankInput == IsBlank(activity) \/ IsBlank(feeling)

\* handleSubmit, rejected by the validation: the inline error and return.
SubmitRejected ==
  /\ activeScreen = "add" /\ ~isLoading
  /\ BlankInput
  /\ error' = "blank"
  /\ UNCHANGED <<activeScreen, appVars, storeVars, selectedDate, activity, feeling, isLoading, fetchVars, settingsVars>>

\* handleSubmit, accepted: setIsLoading(true), setError(null), and the first
\* call of fetchWithBackoff with the default policy.  The handler keeps the
\* activity and feeling of the render it was made in.  One submission is
\* followed at a time: none is made while another's call is in flight.
SubmitAccepted ==
  /\ activeScreen = "add" /\ ~isLoading
  /\ pc = "idle"
  /\ ~BlankInput
  /\ submitted' = [activity |-> activity, feeling |-> feeling]
  /\ allEntries.t = "array" /\ Len(allEntries.a) < MaxEntries
  /\ isLoading' = TRUE
  /\ error' = ""
  /\ pc' = "fetching"
  /\ retries' = Retries
  /\ delay' = InitialDelay
  /\ answers' = <<>>
  /\ waits' = <<>>
  /\ fetched' = NotFetched
  /\ UNCHANGED <<activeScreen, appVars, storeVars, selectedDate, activity, feeling, settingsVars>>

(****************************** fetchWithBackoff ***************************)

ResponseOk(status) == status >= 200 /\ status <= 299

\* Mutant of ShouldRetry: the last retry is never made.
ShouldRetryButLast(status, left) == status = TooManyRequests /\ left > 1
\* Mutant of NextDelay: the delay is not doubled.
SameDelay(d) == d

\* The branch of fetchWithBackoff that waits and calls again.
ShouldRetry(status, left) == status = TooManyRequests /\ left > 0
NextRetries(left) == left - 1
NextDelay(d) == d * 2

\* fetch resolves with a status that is not ok, a 429 with retries left:
\* the timer is set for `delay`.
FetchRetries(status) ==
  /\ pc = "fetching"
  /\ ~ResponseOk(status) /\ ShouldRetry(status, retries)
  /\ answers' = Append(answers, status)
  /\ waits' = Append(waits, delay)
  /\ pc' = "waiting"
  /\ UNCHANGED <<activeScreen, appVars, storeVars, selectedDate, formVars, retries, delay, fetched, settingsVars,
               submitted>>

\* fetch rejects (status 0), or resolves with a status that is not ok and is
\* not retried: the error is thrown, logged by the catch block and thrown on.
FetchThrows(status) ==
  /\ pc = "fetching"
  /\ ~ResponseOk(status) /\ ~ShouldRetry(status, retries)
  /\ answers' = Append(answers, status)
  /\ fetched' = [ok |-> FALSE, body |-> NoBody]
  /\ pc' = "settled"
  /\ UNCHANGED <<activeScreen, appVars, storeVars, selectedDate, formVars, retries, delay, waits, settingsVars,
               submitted>>

\* fetch resolves with an ok status: return response.json().
FetchReturns(status, body) ==
  /\ pc = "fetching"
  /\ ResponseOk(status)
  /\ answers' = Append(answers, status)
  /\ fetched' = [ok |-> TRUE, body |-> body]
  /\ pc' = "settled"
  /\ UNCHANGED <<activeScreen, appVars, storeVars, selectedDate, formVars, retries, delay, waits, settingsVars,
               submitted>>

\* The timer of the wait fires: fetchWithBackoff(url, options, retries - 1,
\* delay * 2).
TimerFires ==
  /\ pc = "waiting"
  /\ pc' = "fetching"
  /\ retries' = NextRetries(retries)
  /\ delay' = NextDelay(delay)
  /\ UNCHANGED <<activeScreen, appVars, storeVars, selectedDate, formVars, answers, waits, fetched, settingsVars,
               submitted>>

(********************************* callAiModel *****************************)

\* The catch block's value.
ZeroGains == Obj([i \in 1..Len(StatKeys) |-> Member(StatKeys[i], Num(0))])

\* result.candidates?.[0] && candidate.content?.parts?.[0]?.text
HasCandidateText(body) == body.kind = "text" /\ body.text # <<>>

\* Mutant of CallAiModel: the catch block returns an empty object.
CallAiModelEmptyFallback(f) ==
  IF ~f.ok THEN Obj(<<>>)
  ELSE IF f.body.kind = "notjson" THEN Obj(<<>>)
  ELSE IF ~HasCandidateText(f.body) THEN Obj(<<>>)
  ELSE IF ~JSONParse(f.body.text).ok THEN Obj(<<>>)
  ELSE JSONParse(f.body.text).v

\* callAiModel once fetchWithBackoff has settled as f: the parsed text of the
\* first candidate; the catch block turns a thrown request error, a rejected
\* response.json(), a missing text and a SyntaxError of JSON.parse into
\* ZeroGains.
CallAiModel(f) ==
  IF ~f.ok THEN ZeroGains
  ELSE IF f.body.kind = "notjson" THEN ZeroGains
  ELSE IF ~HasCandidateText(f.body) THEN ZeroGains
  ELSE IF ~JSONParse(f.body.text).ok THEN ZeroGains
  ELSE JSONParse(f.body.text).v

(******************************* handleSaveEntry ***************************)

\* Mutant of AppendEntry: [newEntry, ...prev].
PrependEntry(prev, e) == Arr(<<e>> \o prev.a)

\* [...prev, newEntry]
AppendEntry(prev, e) == Arr(Append(prev.a, e))

\* String(v), as + applies it to an operand when the other is a string.
RECURSIVE ToText(_)
RECURSIVE JoinTexts(_, _)
ToText(v) ==
  CASE v.t = "string" -> v.s
    [] v.t = "number" -> ToString(v.n)
    [] v.t = "boolean" -> IF v.b THEN "true" ELSE "false"
    [] v.t = "null" -> "null"
    [] v.t = "undefined" -> "undefined"
    [] v.t = "array" -> JoinTexts(v.a, 1)
    [] v.t = "object" -> "[object Object]"
\* Array.prototype.join: null and undefined elements give the empty string.
JoinTexts(a, i) ==
  IF i > Len(a) THEN ""
  ELSE (IF i > 1 THEN "," ELSE "")
       \o (IF a[i].t \in {"null", "undefined"} THEN "" ELSE ToText(a[i]))
       \o JoinTexts(a, i + 1)
\* Number(v) of a number, a boolean or null.
ToNumber(v) ==
  CASE v.t = "number" -> v.n
    [] v.t = "boolean" -> IF v.b THEN 1 ELSE 0
    [] v.t = "null" -> 0

\* a + b: the concatenation when an operand is a string (or an array or
\* object, whose primitive is one), else the sum; neither operand is
\* undefined where the model adds.
Plus(a, b) ==
  IF {a.t, b.t} \cap {"string", "array", "object"} # {}
  THEN Str(ToText(a) \o ToText(b))
  ELSE Num(ToNumber(a) + ToNumber(b))
\* a || b
Or(a, b) == IF Truthy(a) THEN a ELSE b

\* Mutant of StatSum: newStats[key] = newEntry.gains[key].
StatSumOverwrite(old, gain) == gain

\* (newStats[key] || 0) + newEntry.gains[key]
StatSum(old, gain) == Plus(Or(old, Num(0)), gain)

\* The for-in loop over newEntry.gains, on the member list of newStats.
RECURSIVE FoldGains(_, _, _)
FoldGains(stats, gains, keys) ==
  IF keys = <<>> THEN stats
  ELSE FoldGains(
         SetMember(stats, Head(keys),
                   StatSum(Get(Obj(stats), Head(keys)), Get(gains, Head(keys)))),
         gains, Tail(keys))

\* The updater handed to setPlayerStats.
AddGains(prev, e) ==
  Obj(FoldGains(SpreadObject(prev), Get(e, "gains"), ForInKeys(Get(e, "gains"))))

\* handleSubmit's newEntry.
NewEntry(now, rnd, act, feel, gains) ==
  Obj(<<Member("id", Str(ISOString(now) \o rnd)),
        Member("date", Str(DatePart(now))),
        Member("activity", Str(act)),
        Member("feeling", Str(feel)),
        Member("gains", gains)>>)

\* handleSubmit after the await: callAiModel's value, the new entry,
\* onSave(newEntry) = handleSaveEntry, the fields cleared, the stats screen
\* shown, and setIsLoading(false).  Showing the stats screen unmounts the
\* screen shown until then, the form or another, with its state.
SaveSettled(now, rnd) ==
  /\ pc = "settled"
  /\ LET e == NewEntry(now, rnd, submitted.activity, submitted.feeling,
                       CallAiModel(fetched)) IN
       /\ allEntries' = AppendEntry(allEntries, e)
       /\ playerStats' = AddGains(playerStats, e)
  /\ Commit
  /\ activity' = ""
  /\ feeling' = ""
  /\ activeScreen' = "stats"
  /\ isLoading' = FALSE
  /\ pc' = "idle"
  /\ retries' = Retries
  /\ delay' = InitialDelay
  /\ answers' = <<>>
  /\ waits' = <<>>
  /\ fetched' = NotFetched
  /\ submitted' = NoSubmission
  /\ error' = ""
  /\ message' = IF activeScreen = "stats" THEN message ELSE NoMessage
  /\ exportFile' = IF activeScreen = "stats" THEN exportFile ELSE NoFile
  /\ reading' = IF reading = "mounted" /\ activeScreen # "stats" THEN "orphan" ELSE reading
  /\ selectedDate' = NoDate

(***************************** export and import ***************************)

\* Mutant of ExportData: the entries are written under another key.
ExportDataRenamed(entries, stats, now) ==
  Obj(<<Member("entries", entries), Member("playerStats", stats),
        Member("exportDate", Str(ISOString(now)))>>)

\* handleExport's data.
ExportData(entries, stats, now) ==
  Obj(<<Member("allEntries", entries), Member("playerStats", stats),
        Member("exportDate", Str(ISOString(now)))>>)

\* JSON.stringify(data, null, 2); the indentation is white space between
\* tokens.
ExportText(entries, stats, now) == Stringify(ExportData(entries, stats, now))

\* handleExport: the document is written and success is reported, or
\* Filesystem.writeFile rejects and the catch block reports the error.
HandleExport(now, written) ==
  /\ activeScreen = "settings"
  /\ exportFile' = IF written THEN ExportText(allEntries, playerStats, now) ELSE exportFile
  /\ message' = IF written THEN Msg("success", "export") ELSE Msg("error", "export")
  /\ UNCHANGED <<activeScreen, appVars, storeVars, selectedDate, formVars, fetchVars, reading>>

\* handleImport without a file: setMessage(null) and return.
ImportNoFile ==
  /\ activeScreen = "settings"
  /\ message' = NoMessage
  /\ UNCHANGED <<activeScreen, appVars, storeVars, selectedDate, formVars, fetchVars, reading, exportFile>>

\* handleImport with a file: setMessage(null) and reader.readAsText(file).
HandleImport ==
  /\ activeScreen = "settings"
  /\ reading = "none"
  /\ message' = NoMessage
  /\ reading' = "mounted"
  /\ UNCHANGED <<activeScreen, appVars, storeVars, selectedDate, formVars, fetchVars, exportFile>>

\* Mutant of ShapeOk: data.allEntries || data.playerStats.
ShapeOkEither(data) == Truthy(Get(data, "allEntries")) \/ Truthy(Get(data, "playerStats"))
\* Mutant of ShapeOk: 'allEntries' in data && 'playerStats' in data.
ShapeOkPresent(data) ==
  data.t = "object" /\ HasKey(data.m, "allEntries") /\ HasKey(data.m, "playerStats")

\* data.allEntries && data.playerStats
ShapeOk(data) == Truthy(Get(data, "allEntries")) /\ Truthy(Get(data, "playerStats"))

\* reader.onload's try block on the file's text: "replace" with the two
\* values, or the error caught (JSON.parse's SyntaxError, the TypeError of
\* reading a property of null, the thrown format error).
ImportOutcome(text) ==
  LET p == JSONParse(text) IN
  IF ~p.ok
  THEN [kind |-> "SyntaxError", allEntries |-> Undef, playerStats |-> Undef]
  ELSE IF p.v.t = "null"
  THEN [kind |-> "TypeError", allEntries |-> Undef, playerStats |-> Undef]
  ELSE IF ShapeOk(p.v)
  THEN [kind |-> "replace", allEntries |-> Get(p.v, "allEntries"),
        playerStats |-> Get(p.v, "playerStats")]
  ELSE [kind |-> "format", allEntries |-> Undef, playerStats |-> Undef]

\* The message of the try block's end or of the catch block.
ImportMessage(kind) ==
  IF kind = "replace" THEN Msg("success", "import") ELSE Msg("error", "import")

\* The files the picker offers.
Files == Docs \cup (IF exportFile = NoFile THEN {} ELSE {exportFile})

\* reader.onload.  setMessage reaches the screen only while the SettingsScreen
\* that started the read is still mounted.
ReaderOnload(text) ==
  /\ reading # "none"
  /\ LET r == ImportOutcome(text) IN
       /\ IF r.kind = "replace"
          THEN /\ allEntries' = r.allEntries
               /\ playerStats' = r.playerStats
               /\ Commit
          ELSE UNCHANGED <<appVars, storeVars>>
       /\ message' = IF reading = "mounted" THEN ImportMessage(r.kind) ELSE message
  /\ reading' = "none"
  /\ UNCHANGED <<activeScreen, formVars, fetchVars, exportFile, selectedDate>>

\* reader.onerror
ReaderOnerror ==
  /\ reading # "none"
  /\ message' = IF reading = "mounted" THEN Msg("error", "read") ELSE message
  /\ reading' = "none"
  /\ UNCHANGED <<activeScreen, appVars, storeVars, selectedDate, formVars, fetchVars, exportFile>>

(********************************* the calendar ****************************)

\* The readings of the clock that the ids of listed entries were made from,
\* and the suffixes Math.random() gave them.
CalendarInstants == 1..4
Suffixes == Randoms \cup {"0.5"}

\* The time value of a Date: a number of milliseconds (here the rank of the
\* clock reading), or NaN for an Invalid Date.
InvalidDate == [valid |-> FALSE, ms |-> 0]
TimeValue(ms) == [valid |-> TRUE, ms |-> ms]

\* Date.parse is specified for the ISO format only; on any other string the
\* engine may apply heuristics of its own or give NaN.  An id is an ISO
\* string followed by the digits of Math.random(): a strict engine gives
\* NaN, a lenient one the time of the ISO prefix.
Engines == {"strict", "lenient"}
DateParse(str, engine) ==
  IF \E d \in CalendarInstants : str = ISOString(d)
  THEN TimeValue(CHOOSE d \in CalendarInstants : str = ISOString(d))
  ELSE IF engine = "lenient"
          /\ \E d \in CalendarInstants, r \in Suffixes : str = ISOString(d) \o r
  THEN TimeValue(CHOOSE d \in CalendarInstants :
                   \E r \in Suffixes : str = ISOString(d) \o r)
  ELSE InvalidDate

\* new Date(v)
NewDate(v, engine) ==
  CASE v.t = "string" -> DateParse(v.s, engine)
    [] v.t = "number" -> TimeValue(v.n)
    [] v.t = "null" -> TimeValue(0)
    [] v.t = "boolean" -> TimeValue(IF v.b THEN 1 ELSE 0)
    [] OTHER -> InvalidDate

\* The comparator (a, b) => new Date(b.id) - new Date(a.id): a number, or
\* NaN when either Date is invalid.
NaN == [nan |-> TRUE, n |-> 0]
CompareById(a, b, engine) ==
  LET da == NewDate(Get(a, "id"), engine)
      db == NewDate(Get(b, "id"), engine)
  IN IF da.valid /\ db.valid THEN [nan |-> FALSE, n |-> db.ms - da.ms] ELSE NaN

\* Array.prototype.sort reads a comparator's NaN as +0.
SortOrder(v) == IF v.nan THEN 0 ELSE v.n

\* Array.prototype.sort, which is stable: x goes behind the elements already
\* placed that do not compare greater than x.
RECURSIVE InsertSorted(_, _, _)
InsertSorted(sorted, x, engine) ==
  IF sorted = <<>> THEN <<x>>
  ELSE IF SortOrder(CompareById(sorted[Len(sorted)], x, engine)) > 0
  THEN Append(InsertSorted(SubSeq(sorted, 1, Len(sorted) - 1), x, engine),
              sorted[Len(sorted)])
  ELSE Append(sorted, x)

RECURSIVE SortById(_, _)
SortById(list, engine) ==
  IF list = <<>> THEN <<>>
  ELSE InsertSorted(SortById(SubSeq(list, 1, Len(list) - 1), engine),
                    list[Len(list)], engine)

\* allEntries.filter(entry => entry.date === selectedDate)
FilterByDate(list, date) == SelectSeq(list, LAMBDA e : Get(e, "date") = Str(date))

\* The useMemo of selectedDateEntries.
SelectedDateEntries(entries, date, engine) ==
  SortById(FilterByDate(entries.a, date), engine)

(****************************** the specification **************************)

\* The application operated by touch or mouse, on a store that accepts every
\* write.
Next ==
  \/ \E to \in Screens : Navigate(to)
  \/ \E d \in Dates : SelectDate(d)
  \/ \E s \in Texts : SetActivity(s)
  \/ \E s \in Texts : SetFeeling(s)
  \/ SubmitRejected
  \/ SubmitAccepted
  \/ \E status \in Statuses : FetchRetries(status)
  \/ \E status \in Statuses : FetchThrows(status)
  \/ \E status \in Statuses, body \in Bodies : FetchReturns(status, body)
  \/ TimerFires
  \/ \E now \in Instants, rnd \in Randoms : SaveSettled(now, rnd)
  \/ \E now \in Instants, written \in BOOLEAN : HandleExport(now, written)
  \/ ImportNoFile
  \/ HandleImport
  \/ \E text \in Files : ReaderOnload(text)
  \/ ReaderOnerror

Spec == Init /\ [][Next]_vars

\* The application used without its import: every state is reached from the
\* first-run state by entry saves (and exports) only.  The endpoint also
\* answers with a gain that is a string.
SavesBodies == Bodies \cup {[kind |-> "text", text |-> TextQuoted]}

NextSaves ==
  \/ \E to \in Screens : Navigate(to)
  \/ \E d \in Dates : SelectDate(d)
  \/ \E s \in Texts : SetActivity(s)
  \/ \E s \in Texts : SetFeeling(s)
  \/ SubmitRejected
  \/ SubmitAccepted
  \/ \E status \in Statuses : FetchRetries(status)
  \/ \E status \in Statuses : FetchThrows(status)
  \/ \E status \in Statuses, body \in SavesBodies : FetchReturns(status, body)
  \/ TimerFires
  \/ \E now \in Instants, rnd \in Randoms : SaveSettled(now, rnd)
  \/ \E now \in Instants, written \in BOOLEAN : HandleExport(now, written)

SpecSaves == Init /\ [][NextSaves]_vars

\* The store starts or stops accepting writes under some keys (the storage
\* is switched off or on, the quota is reached or space is freed).
StoreChanges(keys) ==
  /\ keys # rejecting
  /\ rejecting' = keys
  /\ UNCHANGED <<activeScreen, appVars, formVars, fetchVars, settingsVars, store, setItems,
               selectedDate>>

\* The application on a store that may reject writes, with one reading of
\* the clock, one text typed, an endpoint that answers 200 with gains, and a
\* picker that offers a full document and one without playerStats.
InitStore == \E rej \in SUBSET StoreKeys : Mounted(rej)
StoreScreens == {"add", "settings"}
StoreTexts == {"read a book"}
StoreBodies == {[kind |-> "text", text |-> TextA]}
StoreDocs == {DocFull, DocNoStats}

NextStore ==
  \/ \E to \in StoreScreens : Navigate(to)
  \/ \E s \in StoreTexts : SetActivity(s)
  \/ \E s \in StoreTexts : SetFeeling(s)
  \/ SubmitAccepted
  \/ \E status \in {200}, body \in StoreBodies : FetchReturns(status, body)
  \/ \E now \in {1}, rnd \in Randoms : SaveSettled(now, rnd)
  \/ HandleImport
  \/ \E text \in StoreDocs : ReaderOnload(text)
  \/ \E keys \in SUBSET StoreKeys : StoreChanges(keys)

SpecStore == InitStore /\ [][NextStore]_vars

\* The calendar screen on an entry list: the entries were made by
\* handleSubmit at distinct readings of the clock with gains of zero, and are
\* listed in any order (an import takes any list).
MaxListed == 3
CalendarEntry(d) == NewEntry(d, "0.25", "read a book", "read a book", ZeroGains)
CalendarLists ==
  {q \in UNION {[1..n -> CalendarInstants] : n \in 0..MaxListed} :
     \A i, j \in 1..Len(q) : i # j => q[i] # q[j]}

InitCalendar ==
  /\ activeScreen = "calendar"
  /\ \E q \in CalendarLists :
       allEntries = Arr([i \in 1..Len(q) |-> CalendarEntry(q[i])])
  /\ playerStats = ZeroStats
  /\ selectedDate \in {DatePart(now) : now \in Instants}
  /\ rejecting = {}
  /\ setItems = Effects(TRUE, allEntries, TRUE, TRUE, playerStats, TRUE)
  /\ store = Written(EmptyStore, setItems)
  /\ activity = ""
  /\ feeling = ""
  /\ isLoading = FALSE
  /\ error = ""
  /\ message = NoMessage
  /\ pc = "idle"
  /\ retries = Retries
  /\ delay = InitialDelay
  /\ answers = <<>>
  /\ waits = <<>>
  /\ fetched = NotFetched
  /\ reading = "none"
  /\ exportFile = NoFile
  /\ submitted = NoSubmission

NextCalendar == \E d \in Dates : SelectDate(d)

SpecCalendar == InitCalendar /\ [][NextCalendar]_vars

\* The application used with the keyboard as well, with one text typed and
\* an endpoint that answers 200 with gains, 429 or 500.
KeyStatuses == {200, 429, 500}

NextKeys ==
  \/ \E to \in Screens : Navigate(to)
  \/ \E to \in Screens : KeyboardNavigate(to)
  \/ \E s \in StoreTexts : SetActivity(s)
  \/ \E s \in StoreTexts : SetFeeling(s)
  \/ SubmitAccepted
  \/ \E status \in KeyStatuses : FetchRetries(status)
  \/ \E status \in KeyStatuses : FetchThrows(status)
  \/ \E status \in KeyStatuses, body \in StoreBodies : FetchReturns(status, body)
  \/ TimerFires
  \/ \E now \in Instants, rnd \in Randoms : SaveSettled(now, rnd)

SpecKeys == Init /\ [][NextKeys]_vars

(********************************* the claims ******************************)

\* The total of key k: the number held, 0 when the key is missing.
Total(stats, k) ==
  LET v == Get(stats, k) IN IF v.t = "number" THEN v.n ELSE 0

EntryAt(i) == allEntries.a[i]
EntryCount == Len(allEntries.a)
IsZeroDelta(g) ==
  /\ g.t = "object"
  /\ Keys(g.m) = StatKeySet
  /\ \A k \in StatKeySet : Get(g, k) = Num(0)

\* A step of handleSubmit's continuation: the save of the settled submission.
SaveStep == pc = "settled" /\ pc' = "idle"

\* The AI call failed: the request was not answered 2xx (a status that is not
\* retried, the retries used up, no network), or the answer holds no
\* candidate text, or the text is not JSON.
AiCallFailed(f) ==
  \/ ~f.ok
  \/ f.body.kind # "text"
  \/ f.body.text = <<>>
  \/ ~JSONParse(f.body.text).ok

\* C1: once the validation has passed, a failed AI call does not abort the
\* save: the only step that ends a submission whose call failed is the save,
\* which appends exactly one entry, whose gains are the all-zero delta, and
\* leaves the total of each of the five keys as it was.
C1_FailedCallSavesZeroEntry ==
  [][(pc = "settled" /\ AiCallFailed(fetched) /\ pc' # "settled") =>
       /\ pc' = "idle" /\ ~isLoading'
       /\ Len(allEntries'.a) = EntryCount + 1
       /\ SubSeq(allEntries'.a, 1, EntryCount) = allEntries.a
       /\ IsZeroDelta(Get(allEntries'.a[EntryCount + 1], "gains"))
       /\ \A k \in StatKeySet : Total(playerStats', k) = Total(playerStats, k)]_vars

\* A failed call was saved as a second entry, after an entry that earned
\* points: the entry has the zero delta and the totals are still the first
\* entry's.
C1_Witness ==
  /\ activeScreen = "stats" /\ pc = "idle"
  /\ EntryCount = 2
  /\ IsZeroDelta(Get(EntryAt(2), "gains"))
  /\ Total(playerStats, "knowledge") = 4
  /\ Total(playerStats, "diligence") = 1

\* Deltas within the schema: five keys, each an integer from 0 to 5.
Delta(d, k, c, u, e) ==
  Obj(<<Member("diligence", Num(d)), Member("knowledge", Num(k)),
        Member("courage", Num(c)), Member("understanding", Num(u)),
        Member("expression", Num(e))>>)
ValidDeltas ==
  {Delta(0, 0, 0, 0, 0), Delta(1, 4, 0, 0, 0), Delta(0, 0, 5, 3, 2),
   Delta(5, 5, 5, 5, 5)}
EntryWith(g) == NewEntry(1, "0.25", "read a book", "learned a lot", g)

\* C2: from the attribute set of any reachable state (keys may be missing
\* after an import), saving two valid deltas one after the other through
\* handleSaveEntry's updater gives, for each of the five keys, the old total
\* (0 if missing) plus both deltas' values.
C2_TwoSavesAddBothDeltas ==
  \A g1 \in ValidDeltas, g2 \in ValidDeltas : \A k \in StatKeySet :
    Total(AddGains(AddGains(playerStats, EntryWith(g1)), EntryWith(g2)), k)
      = Total(playerStats, k) + Total(g1, k) + Total(g2, k)

\* Two entries with the delta (1, 4, 0, 0, 0) have been saved and the totals
\* are their key-wise sum.
C2_Witness ==
  /\ EntryCount = 2
  /\ Get(EntryAt(1), "gains") = Delta(1, 4, 0, 0, 0)
  /\ Get(EntryAt(2), "gains") = Delta(1, 4, 0, 0, 0)
  /\ Total(playerStats, "diligence") = 2
  /\ Total(playerStats, "knowledge") = 8
  /\ \A k \in {"courage", "understanding", "expression"} : Total(playerStats, k) = 0

\* C3: a save appends at the end: the list before it is a strict prefix of
\* the list after it, one entry longer.
C3_SaveAppendsAtEnd ==
  [][SaveStep =>
       /\ Len(allEntries'.a) = EntryCount + 1
       /\ SubSeq(allEntries'.a, 1, EntryCount) = allEntries.a]_vars

\* Two different entries have been saved, the later one last.
C3_Witness ==
  /\ EntryCount = 2
  /\ activeScreen = "stats"
  /\ Get(EntryAt(1), "id") = Str(ISOString(1) \o "0.25")
  /\ Get(EntryAt(2), "id") = Str(ISOString(2) \o "0.25")

\* C4 (as claimed; checked without the import, SpecSaves): after every step
\* the attribute set has exactly the five keys, and no step lowers a total.
C4_FiveKeysNeverLowered ==
  [][/\ Keys(playerStats'.m) = StatKeySet
     /\ \A k \in StatKeySet : Total(playerStats', k) >= Total(playerStats, k)]_vars

\* The parsed document of a file, and what a document holds under a key.
Parsed(text) == JSONParse(text)
HoldsKey(text, k) ==
  Parsed(text).ok /\ Parsed(text).v.t = "object" /\ HasKey(Parsed(text).v.m, k)
Held(text, k) == Get(Parsed(text).v, k)
\* The values JavaScript takes for false among those a JSON text can hold.
IsFalsy(v) == v \in {Null, Bool(FALSE), Num(0), Str("")}

\* The file does not parse, or its document lacks one of the two keys.
BadDocument(text) ==
  ~Parsed(text).ok \/ ~HoldsKey(text, "allEntries") \/ ~HoldsKey(text, "playerStats")

Replaced(text) ==
  /\ allEntries' = Held(text, "allEntries")
  /\ playerStats' = Held(text, "playerStats")
Reported(type) == reading = "mounted" => message' = Msg(type, "import")

\* C5: the import of a file that does not parse, or whose document lacks
\* allEntries or playerStats, leaves the entry list and the attribute set as
\* they were and reports the failure (on the screen that started the read,
\* while it is mounted); and any import either replaces both with the
\* document's values or leaves both.
C5_BadImportKeepsState ==
  [][\A text \in Files : ReaderOnload(text) =>
       /\ BadDocument(text) => (UNCHANGED appVars /\ Reported("error"))
       /\ Replaced(text) \/ UNCHANGED appVars]_vars

\* A failed import has been reported and the entry saved before it is still
\* there with its total.
C5_Witness ==
  /\ message = Msg("error", "import")
  /\ reading = "none"
  /\ EntryCount = 1
  /\ Get(EntryAt(1), "activity") = Str("read a book")
  /\ Total(playerStats, "knowledge") = 4

\* C6 (as claimed): the import of a document that holds both keys, whatever
\* their values, replaces both and reports success; any other import reports
\* an error and replaces nothing.
C6_PresentKeysReplace ==
  [][\A text \in Files : ReaderOnload(text) =>
       IF HoldsKey(text, "allEntries") /\ HoldsKey(text, "playerStats")
       THEN Replaced(text) /\ Reported("success")
       ELSE UNCHANGED appVars /\ Reported("error")]_vars

\* Both keys are held with values that JavaScript takes for true.
BothTruthy(text) ==
  /\ HoldsKey(text, "allEntries") /\ ~IsFalsy(Held(text, "allEntries"))
  /\ HoldsKey(text, "playerStats") /\ ~IsFalsy(Held(text, "playerStats"))

\* C6 (amended): the import of a document that holds both keys with truthy
\* values replaces both, with nothing of the prior state kept, and reports
\* success; when a key is absent or its value is falsy (null, false, 0, "")
\* the import reports an error and replaces nothing.
C6_TruthyKeysReplace ==
  [][\A text \in Files : ReaderOnload(text) =>
       IF BothTruthy(text)
       THEN Replaced(text) /\ Reported("success")
       ELSE UNCHANGED appVars /\ Reported("error")]_vars

\* The document with an empty list and an empty attribute object has been
\* imported: both are truthy, and the state is exactly the document's.
C6_Witness ==
  /\ message = Msg("success", "import")
  /\ allEntries = Arr(<<>>)
  /\ playerStats = Obj(<<>>)

\* The export file is the document of the present state.
ExportIsCurrent ==
  /\ exportFile # NoFile
  /\ \E d \in Instants : exportFile = ExportText(allEntries, playerStats, d)

\* C7: importing the document just exported from the present state leaves
\* the entry list and the attribute set equal to what they were, and
\* reports success.
C7_ExportImportRoundTrip ==
  [][(ExportIsCurrent /\ ReaderOnload(exportFile)) =>
       (UNCHANGED appVars /\ Reported("success"))]_vars

\* The first-run state (no entry, all totals 0) has been exported and the
\* export imported.
C7_Witness ==
  /\ message = Msg("success", "import")
  /\ ExportIsCurrent
  /\ allEntries = Arr(<<>>)
  /\ playerStats = ZeroStats

RECURSIVE Pow2(_)
Pow2(n) == IF n = 0 THEN 1 ELSE 2 * Pow2(n - 1)
RECURSIVE SumSeq(_)
SumSeq(q) == IF q = <<>> THEN 0 ELSE Head(q) + SumSeq(Tail(q))
\* The endpoint answered 429 to the first k calls, and 200 to the next one.
RateLimited(k) == Len(answers) = k /\ \A i \in 1..k : answers[i] = 429
RateLimitedThenOk(k) ==
  Len(answers) = k + 1 /\ answers[k + 1] = 200 /\ \A i \in 1..k : answers[i] = 429
DoublingWaits(k) == [i \in 1..k |-> 1000 * Pow2(i - 1)]

\* C8: after 429 to the first k calls, k from 0 to 5, fetchWithBackoff goes
\* on to the next call, and when that one is answered 200 it returns, having
\* made k + 1 calls and waited 1000, 2000, 4000, ... ms between them; for
\* k = 2 the waits add up to 3000 ms.
C8_BackoffDoubles ==
  \A k \in 0..5 :
    /\ (RateLimited(k) /\ k > 0) => pc \in {"waiting", "fetching"}
    /\ RateLimitedThenOk(k) =>
         /\ pc = "settled"
         /\ fetched.ok
         /\ waits = DoublingWaits(k)
         /\ k = 2 => SumSeq(waits) = 3000

\* Two 429s, then 200: returned after three calls and waits of 1000 and 2000.
C8_Witness ==
  /\ pc = "settled"
  /\ answers = <<429, 429, 200>>
  /\ fetched.ok
  /\ waits = <<1000, 2000>>

\* C9 (as claimed): once the endpoint has answered 429 to five calls in a
\* row, the request does not return a successful result.
C9_FiveRateLimitsRaise ==
  (pc = "settled" /\ Len(answers) >= 5 /\ \A i \in 1..5 : answers[i] = 429)
    => ~fetched.ok

\* C9 (amended): the budget is five retries after the first call.  After
\* five 429s in a row a sixth call is still made, 16000 ms later; a sixth
\* 429 throws the request failure, with no retry left, and no seventh call
\* is made.
C9_SixRateLimitsRaise ==
  /\ Len(answers) <= 6
  /\ RateLimited(5) => (pc \in {"waiting", "fetching"} /\ waits[5] = 16000)
  /\ RateLimited(6) => (pc = "settled" /\ ~fetched.ok /\ retries = 0)

\* Six 429s in a row: the request has thrown.
C9_Witness ==
  /\ pc = "settled"
  /\ RateLimited(6)
  /\ ~fetched.ok

\* A text that is empty or only white space.
BlankText(s) == s \in {"", "  "}

\* C10: a submission with a blank activity or feeling sets the inline error
\* and nothing else: no call is issued, the form does not start loading, no
\* entry is appended and no total changes; and no call is ever in flight for
\* blank input.
C10_BlankSubmitRejected ==
  [][/\ ((BlankText(activity) \/ BlankText(feeling)) /\ (SubmitRejected \/ SubmitAccepted)) =>
          /\ error' = "blank"
          /\ pc' = "idle" /\ answers' = <<>>
          /\ ~isLoading'
          /\ UNCHANGED appVars
     /\ pc' # "idle" => (~BlankText(activity') /\ ~BlankText(feeling'))]_vars

\* The form shows the inline error for an empty activity and a filled-in
\* feeling, and nothing is in flight.
C10_Witness ==
  /\ activeScreen = "add"
  /\ error = "blank"
  /\ activity = ""
  /\ feeling = "read a book"
  /\ pc = "idle"
  /\ ~isLoading
  /\ allEntries = Arr(<<>>)

\* The setItem calls among calls that were made under key k.
CallsFor(calls, k) == SelectSeq(calls, LAMBDA c : c.key = k)
\* The most recent write under key k was accepted by the store.
LastWriteAccepted(k) ==
  /\ CallsFor(setItems, k) # <<>>
  /\ CallsFor(setItems, k)[Len(CallsFor(setItems, k))].ok
\* The step is one in which a handler calls the setters of the cells: the
\* save of an entry, or the end of a file read.
SetterStep == SaveStep \/ (reading # "none" /\ reading' = "none")
\* After the step, exactly one write was made under k, of the text now, and
\* the item under k is that text when the store accepted it, else the item
\* it was.
OneWrite(k, now) ==
  /\ Len(CallsFor(setItems', k)) = 1
  /\ CallsFor(setItems', k)[1].text = now
  /\ CallsFor(setItems', k)[1].ok = (k \notin rejecting)
  /\ store'[k] = IF k \notin rejecting THEN Item(now) ELSE store[k]

\* When the store accepted the most recent write of a cell, the item under
\* the cell's key is the serialization of the value the cell holds; and the
\* latest commit made one write under each key.
StoreMirrorsCells ==
  /\ LastWriteAccepted(EntriesKey) => store[EntriesKey] = Item(Stringify(allEntries))
  /\ LastWriteAccepted(StatsKey) => store[StatsKey] = Item(Stringify(playerStats))
  /\ Len(CallsFor(setItems, EntriesKey)) = 1
  /\ Len(CallsFor(setItems, StatsKey)) = 1

\* C11: each cell is write-through.  After mount and after every step, when
\* the store accepted the cell's most recent write the item under the cell's
\* key is the serialization of the value the cell holds; a step that changes
\* the value of a cell (an entry save, a replacing import) makes exactly one
\* write under its key, of the new value's serialization; and writes are
\* made by no step other than a save or the end of a file read.
C11_WriteThrough ==
  /\ StoreMirrorsCells
  /\ [][/\ allEntries' # allEntries => OneWrite(EntriesKey, Stringify(allEntries'))
        /\ playerStats' # playerStats => OneWrite(StatsKey, Stringify(playerStats'))
        /\ <<store, setItems>>' # <<store, setItems>> => SetterStep
        /\ <<appVars, store, setItems>>' # <<appVars, store, setItems>> => StoreMirrorsCells']_vars

\* An entry has been saved while the store took writes under the entries key
\* and threw under the attributes key: the stored list is the list held, and
\* the stored totals are still those written at mount.
C11_Witness ==
  /\ EntryCount = 1
  /\ Total(playerStats, "knowledge") = 4
  /\ rejecting = {StatsKey}
  /\ LastWriteAccepted(EntriesKey)
  /\ ~LastWriteAccepted(StatsKey)
  /\ store[EntriesKey] = Item(Stringify(allEntries))
  /\ store[StatsKey] = Item(Stringify(ZeroStats))

\* The clock reading an id made by handleSubmit starts with.
IdInstant(id) ==
  CHOOSE d \in CalendarInstants : \E r \in Suffixes : id = Str(ISOString(d) \o r)
\* The entries of the list whose date is d.
EntriesOn(d) == {allEntries.a[i] : i \in {j \in 1..EntryCount : Get(allEntries.a[j], "date") = Str(d)}}

\* C12 (as claimed): on every engine, the listing of the selected date holds
\* exactly the entries of the list with that date, each once (none when
\* there is none), in descending order of their ids.
C12_ListingByIdDescending ==
  \A engine \in Engines :
    LET listing == SelectedDateEntries(allEntries, selectedDate, engine) IN
      /\ {listing[i] : i \in 1..Len(listing)} = EntriesOn(selectedDate)
      /\ Len(listing) = Cardinality(EntriesOn(selectedDate))
      /\ \A i, j \in 1..Len(listing) :
           i < j => IdInstant(Get(listing[i], "id")) > IdInstant(Get(listing[j], "id"))

\* A submission has set the loading state and its save has not run.
InFlight == pc # "idle"

\* C13 (as claimed): while the estimation of a submission is in flight, the
\* form that made it is shown and loading, and every step either goes on with
\* the same call (no second submission, the form still shown and loading,
\* waits included) or is the save that appends the entry and clears the
\* loading state: the user neither cancels nor leaves.
C13_SingleFlightNoLeave ==
  [][InFlight =>
       /\ isLoading /\ activeScreen = "add"
       /\ \/ /\ InFlight'
             /\ isLoading' /\ activeScreen' = "add"
             /\ submitted' = submitted
             /\ Len(answers') >= Len(answers)
          \/ /\ SaveStep
             /\ Len(allEntries'.a) = EntryCount + 1
             /\ ~isLoading']_vars

\* The gain of key k in entry e as a number: 0 when it is missing.
GainOf(e, k) == Total(Get(e, "gains"), k)
\* The sum of the gains of key k over the first n entries of the list.
RECURSIVE SumOfGains(_, _)
SumOfGains(k, n) == IF n = 0 THEN 0 ELSE SumOfGains(k, n - 1) + GainOf(EntryAt(n), k)

\* C14 (as claimed): in every state reached from the first-run state by
\* entry saves, the total held for each of the five keys is the sum of that
\* key's gains over the entries of the list.
C14_TotalsAreSumsOfGains ==
  \A k \in StatKeySet : Get(playerStats, k) = Num(SumOfGains(k, EntryCount))

====
